---- MODULE Spec2Model ----
\* Lifecycle model of backend/src/server.js: module load (environment, HTTP
\* listener), the exported connectDB bootstrap, the mongoose connection
\* events, the SIGINT handler and the GET / route.
\*
\* Node runs the program on one event loop.  A step of the model is one
\* callback run to completion; a continuation of an `await` whose promise has
\* settled is a microtask and runs before any other callback, which the guards
\* express with MicrotaskPending.
\*
\* mongoose (package.json: ^7.2.2) is modelled by its documented contract:
\* connect() settles once, within serverSelectionTimeoutMS, by resolving or
\* rejecting; close() resolves after the connection is closed, and a close()
\* issued while a connect is in flight waits for that connect to settle;
\* 'connected' is emitted on the initial connection and on every reconnect,
\* 'disconnected' when connectivity is lost or the connection is closed.
\* app.listen is taken to bind successfully.
EXTENDS Integers, Sequences, FiniteSets, TLC

\* ---------------------------------------------------------------- bounds
MaxRequests == 2
MaxEvents == 2
MaxSigints == 2

\* ------------------------------------------------------------ JS values
\* An environment variable: unset (undefined) or a string.
Unset == [set |-> FALSE, s |-> ""]
EnvStr(str) == [set |-> TRUE, s |-> str]

\* The settings of PORT in the process environment, and in the .env file
\* that dotenv reads.
PortSettings == {Unset, EnvStr(""), EnvStr("0"), EnvStr("8080")}
DotenvSettings == {Unset, EnvStr("5000")}

\* A JS value of type string or number (the number carried in decimal).
JSString(str) == [t |-> "string", v |-> str]
JSNumber(dec) == [t |-> "number", v |-> dec]

\* require('dotenv').config(): a variable of the .env file is copied into
\* process.env only when process.env does not already have it.
DotenvConfig(env, file) == IF env.set THEN env ELSE file

\* JS truthiness of process.env.X: undefined and '' are falsy, every other
\* string (including '0') is truthy.
Truthy(e) == e.set /\ e.s # ""

\* The variant that falls back only on undefined (?? instead of ||).
PortConstNullish(e) == IF e.set THEN JSString(e.s) ELSE JSNumber("3000")

\* const PORT = process.env.PORT || 3000;
PortConst(e) == IF Truthy(e) THEN JSString(e.s) ELSE JSNumber("3000")

\* `${PORT}` in the listen callback's message.
TemplateString(js) == js.v

\* ---------------------------------------------------------------- state
VARIABLES
    envPORT,      \* PORT in the environment the process is started with
    dotenvPORT,   \* PORT in the .env file
    uriReachable, \* MONGO_URI names a server reachable within the timeout
    pc,           \* "start" | "loaded": server.js has run to its last line
    PORT,         \* the const PORT of line 47
    listening,    \* the HTTP listener is bound
    listenArg,    \* the value app.listen was called with
    listenCb,     \* "none" | "pending" | "done": the listen callback
    connState,    \* Disconnected | Connecting | Connected | Errored
    connectPc,    \* connectDB: idle | awaiting | resolved | rejected | done
    closePc,      \* connection.close(): none | waitOpen | closing | closed
    sigintAt,     \* for each SIGINT handled: the state it arrived in
    eventsSeen,   \* mid-life connection events delivered so far
    responses,    \* the HTTP responses sent
    log,          \* console output, a sequence of <<message, argument>>
    exited,       \* the process has terminated
    exitCode      \* its exit status, meaningful when exited

vars == <<envPORT, dotenvPORT, uriReachable, pc, PORT, listening, listenArg,
          listenCb, connState, connectPc, closePc, sigintAt, eventsSeen,
          responses, log, exited, exitCode>>

inputs == <<envPORT, dotenvPORT, uriReachable>>

ConnStates == {"Disconnected", "Connecting", "Connected", "Errored"}

\* process.env.PORT as line 47 reads it.
ProcessEnvPORT == DotenvConfig(envPORT, dotenvPORT)

\* A settled await whose continuation has not run yet.
MicrotaskPending ==
    \/ connectPc \in {"resolved", "rejected"}
    \/ closePc = "closed"

\* The event loop is free to run an I/O, timer or signal callback.
Idle ==
    /\ pc = "loaded"
    /\ ~exited
    /\ ~MicrotaskPending
    /\ listenCb = "done"

Init ==
    /\ envPORT \in PortSettings
    /\ dotenvPORT \in DotenvSettings
    /\ uriReachable \in BOOLEAN
    /\ pc = "start"
    /\ PORT = JSNumber("0")
    /\ listening = FALSE
    /\ listenArg = JSNumber("0")
    /\ listenCb = "none"
    /\ connState = "Disconnected"
    /\ connectPc = "idle"
    /\ closePc = "none"
    /\ sigintAt = <<>>
    /\ eventsSeen = <<>>
    /\ responses = <<>>
    /\ log = <<>>
    /\ exited = FALSE
    /\ exitCode = 0

\* ------------------------------------------------------------ the route
Body == "Node K8s App running!"

\* The variant whose liveness route reports database health.
RouteHealth(method, path) ==
    IF method = "GET" /\ path = "/"
    THEN IF connState = "Connected"
         THEN [status |-> 200, body |-> Body]
         ELSE [status |-> 503, body |-> "Database unavailable"]
    ELSE [status |-> 404, body |-> "Cannot " \o method \o " " \o path]

\* app.get('/', ...) and express' default 404 for everything else.
Route(method, path) ==
    IF method = "GET" /\ path = "/"
    THEN [status |-> 200, body |-> Body]
    ELSE [status |-> 404, body |-> "Cannot " \o method \o " " \o path]

Methods == {"GET", "POST"}
Paths == {"/"}

\* ------------------------------------------------------------- actions
\* The variant that binds the listener only once the database is connected.
LoadModuleDeferListen ==
    /\ pc = "start"
    /\ pc' = "loaded"
    /\ PORT' = PortConst(ProcessEnvPORT)
    /\ UNCHANGED <<inputs, listening, listenArg, listenCb, connState,
                   connectPc, closePc, sigintAt, eventsSeen, responses, log,
                   exited, exitCode>>

\* node src/server.js, or require('./server'): lines 1-55 run to completion.
\* The handlers are registered, PORT is computed, app.listen binds the
\* listener; connectDB is defined and exported, not called.
LoadModule ==
    /\ pc = "start"
    /\ pc' = "loaded"
    /\ PORT' = PortConst(ProcessEnvPORT)
    /\ listening' = TRUE
    /\ listenArg' = PORT'
    /\ listenCb' = "pending"
    /\ UNCHANGED <<inputs, connState, connectPc, closePc, sigintAt,
                   eventsSeen, responses, log, exited, exitCode>>

\* () => console.log(`Server started on port ${PORT}`)
ListenCallback ==
    /\ listenCb = "pending"
    /\ listening
    /\ ~exited
    /\ ~MicrotaskPending
    /\ listenCb' = "done"
    /\ log' = Append(log, <<"Server started on port", TemplateString(PORT)>>)
    /\ UNCHANGED <<inputs, pc, PORT, listening, listenArg, connState,
                   connectPc, closePc, sigintAt, eventsSeen, responses,
                   exited, exitCode>>

\* The importer of the module calls the exported connectDB(): execution
\* reaches `await mongoose.connect(...)` and suspends there.
CallConnectDB ==
    /\ pc = "loaded"
    /\ ~exited
    /\ ~MicrotaskPending
    /\ connectPc = "idle"
    /\ closePc = "none"
    /\ connectPc' = "awaiting"
    /\ connState' = "Connecting"
    /\ UNCHANGED <<inputs, pc, PORT, listening, listenArg, listenCb, closePc,
                   sigintAt, eventsSeen, responses, log, exited, exitCode>>

\* mongoose.connect settles.  On success the connection is Connected, the
\* 'connected' handler logs, and a close() that waited for the connect goes
\* ahead; on failure (server selection timed out) the promise rejects.
ConnectSettles ==
    /\ Idle
    /\ connectPc = "awaiting"
    /\ IF uriReachable
       THEN /\ connState' = "Connected"
            /\ connectPc' = "resolved"
            /\ log' = Append(log, <<"Mongoose connected to DB", "">>)
            /\ closePc' = IF closePc = "waitOpen" THEN "closing" ELSE closePc
       ELSE /\ connState' = "Errored"
            /\ connectPc' = "rejected"
            /\ UNCHANGED <<log, closePc>>
    /\ UNCHANGED <<inputs, pc, PORT, listening, listenArg, listenCb,
                   sigintAt, eventsSeen, responses, exited, exitCode>>

\* The variant whose catch block logs and lets connectDB be tried again.
ConnectDBResumeRetry ==
    /\ connectPc \in {"resolved", "rejected"}
    /\ ~exited
    /\ IF connectPc = "resolved"
       THEN /\ log' = Append(log, <<"MongoDB Atlas Connected", "">>)
            /\ connectPc' = "done"
            /\ UNCHANGED connState
       ELSE /\ log' = Append(log, <<"MongoDB Connection Error:", "err">>)
            /\ connectPc' = "idle"
            /\ connState' = "Disconnected"
    /\ UNCHANGED <<inputs, pc, PORT, listening, listenArg, listenCb, closePc,
                   sigintAt, eventsSeen, responses, exited, exitCode>>

\* connectDB resumes after the await: line 16, or the catch block of lines
\* 17-20 with process.exit(1), which also takes the listener down.
ConnectDBResume ==
    /\ connectPc \in {"resolved", "rejected"}
    /\ ~exited
    /\ IF connectPc = "resolved"
       THEN /\ log' = Append(log, <<"MongoDB Atlas Connected", "">>)
            /\ connectPc' = "done"
            /\ UNCHANGED <<exited, exitCode, listening>>
       ELSE /\ log' = Append(log, <<"MongoDB Connection Error:", "err">>)
            /\ exited' = TRUE
            /\ exitCode' = 1
            /\ listening' = FALSE
            /\ UNCHANGED connectPc
    /\ UNCHANGED <<inputs, pc, PORT, listenArg, listenCb, connState, closePc,
                   sigintAt, eventsSeen, responses>>

\* The variant whose 'error' handler treats the error as fatal.
ConnErrorEventFatal ==
    /\ Idle
    /\ connectPc = "done"
    /\ Len(eventsSeen) < MaxEvents
    /\ eventsSeen' = Append(eventsSeen, "error")
    /\ log' = Append(log, <<"Mongoose connection error:", "err">>)
    /\ exited' = TRUE
    /\ exitCode' = 1
    /\ listening' = FALSE
    /\ UNCHANGED <<inputs, pc, PORT, listenArg, listenCb, connState,
                   connectPc, closePc, sigintAt, responses>>

\* mongoose emits 'error' on the established connection; the handler of
\* lines 28-30 logs it.
ConnErrorEvent ==
    /\ Idle
    /\ connectPc = "done"
    /\ Len(eventsSeen) < MaxEvents
    /\ eventsSeen' = Append(eventsSeen, "error")
    /\ log' = Append(log, <<"Mongoose connection error:", "err">>)
    /\ UNCHANGED <<inputs, pc, PORT, listening, listenArg, listenCb,
                   connState, connectPc, closePc, sigintAt, responses,
                   exited, exitCode>>

\* Connectivity to the server is lost: the connection becomes Disconnected
\* and mongoose emits 'disconnected'; the handler of lines 32-34 logs it.
ConnDisconnectedEvent ==
    /\ Idle
    /\ connectPc = "done"
    /\ connState = "Connected"
    /\ Len(eventsSeen) < MaxEvents
    /\ connState' = "Disconnected"
    /\ eventsSeen' = Append(eventsSeen, "disconnected")
    /\ log' = Append(log, <<"Mongoose disconnected", "">>)
    /\ UNCHANGED <<inputs, pc, PORT, listening, listenArg, listenCb,
                   connectPc, closePc, sigintAt, responses, exited, exitCode>>

\* The driver finds the server again: the connection is Connected once more
\* and mongoose emits 'connected'; the handler of lines 24-26 logs it.
ConnReconnectedEvent ==
    /\ Idle
    /\ connectPc = "done"
    /\ connState = "Disconnected"
    /\ closePc = "none"
    /\ Len(eventsSeen) < MaxEvents
    /\ connState' = "Connected"
    /\ eventsSeen' = Append(eventsSeen, "connected")
    /\ log' = Append(log, <<"Mongoose connected to DB", "">>)
    /\ UNCHANGED <<inputs, pc, PORT, listening, listenArg, listenCb,
                   connectPc, closePc, sigintAt, responses, exited, exitCode>>

\* The variant that does not await the close.
SigintNoAwait ==
    /\ Idle
    /\ Len(sigintAt) < MaxSigints
    /\ sigintAt' = Append(sigintAt, [conn |-> connState, close |-> closePc])
    /\ closePc' = IF closePc = "none" THEN "closing" ELSE closePc
    /\ log' = Append(log, <<"Mongoose connection closed due to app termination", "">>)
    /\ exited' = TRUE
    /\ exitCode' = 0
    /\ listening' = FALSE
    /\ UNCHANGED <<inputs, pc, PORT, listenArg, listenCb, connState,
                   connectPc, eventsSeen, responses>>

\* SIGINT is delivered: the handler of line 37 calls connection.close() and
\* suspends at the await.  close() starts closing, or waits for the connect
\* in flight, or joins the close already under way.
Sigint ==
    /\ Idle
    /\ Len(sigintAt) < MaxSigints
    /\ sigintAt' = Append(sigintAt, [conn |-> connState, close |-> closePc])
    /\ closePc' = IF closePc = "none"
                  THEN IF connectPc = "awaiting" THEN "waitOpen" ELSE "closing"
                  ELSE closePc
    /\ UNCHANGED <<inputs, pc, PORT, listening, listenArg, listenCb,
                   connState, connectPc, eventsSeen, responses, log, exited,
                   exitCode>>

\* The variant whose close() resolves with the connection still open.
CloseCompletesStillOpen ==
    /\ Idle
    /\ closePc = "closing"
    /\ closePc' = "closed"
    /\ UNCHANGED <<inputs, pc, PORT, listening, listenArg, listenCb,
                   connState, connectPc, sigintAt, eventsSeen, responses,
                   log, exited, exitCode>>

\* The close finishes: the connection is Disconnected ('disconnected' is
\* emitted if it was not already) and the promise of close() resolves.
CloseCompletes ==
    /\ Idle
    /\ closePc = "closing"
    /\ closePc' = "closed"
    /\ connState' = "Disconnected"
    /\ log' = IF connState = "Disconnected"
              THEN log
              ELSE Append(log, <<"Mongoose disconnected", "">>)
    /\ UNCHANGED <<inputs, pc, PORT, listening, listenArg, listenCb,
                   connectPc, sigintAt, eventsSeen, responses, exited,
                   exitCode>>

\* The variant that reports the shutdown as a failure.
SigintResumeFailure ==
    /\ closePc = "closed"
    /\ ~exited
    /\ log' = Append(log, <<"Mongoose connection closed due to app termination", "">>)
    /\ exited' = TRUE
    /\ exitCode' = 1
    /\ listening' = FALSE
    /\ UNCHANGED <<inputs, pc, PORT, listenArg, listenCb, connState,
                   connectPc, closePc, sigintAt, eventsSeen, responses>>

\* The SIGINT handler resumes after the await: lines 39-40.
SigintResume ==
    /\ closePc = "closed"
    /\ ~exited
    /\ log' = Append(log, <<"Mongoose connection closed due to app termination", "">>)
    /\ exited' = TRUE
    /\ exitCode' = 0
    /\ listening' = FALSE
    /\ UNCHANGED <<inputs, pc, PORT, listenArg, listenCb, connState,
                   connectPc, closePc, sigintAt, eventsSeen, responses>>

\* An HTTP request arrives on the bound listener and is answered.  The
\* response is recorded with the connection state it was served in.
Request(method, path) ==
    /\ Idle
    /\ listening
    /\ Len(responses) < MaxRequests
    /\ responses' = Append(responses,
           [method |-> method, path |-> path, conn |-> connState,
            status |-> Route(method, path).status,
            body |-> Route(method, path).body])
    /\ UNCHANGED <<inputs, pc, PORT, listening, listenArg, listenCb,
                   connState, connectPc, closePc, sigintAt, eventsSeen, log,
                   exited, exitCode>>

HandleRequest == \E method \in Methods, path \in Paths : Request(method, path)

Next ==
    \/ LoadModule
    \/ ListenCallback
    \/ CallConnectDB
    \/ ConnectSettles
    \/ ConnectDBResume
    \/ ConnErrorEvent
    \/ ConnDisconnectedEvent
    \/ ConnReconnectedEvent
    \/ Sigint
    \/ CloseCompletes
    \/ SigintResume
    \/ HandleRequest

Spec == Init /\ [][Next]_vars

\* What the event loop guarantees: the module runs, a scheduled callback or
\* continuation runs, a connect settles within its timeout and a close
\* finishes.  Nothing obliges an importer to call connectDB, the environment
\* to send a signal or a request, or the database to drop the connection.
FairSpec ==
    /\ Spec
    /\ WF_vars(LoadModule)
    /\ WF_vars(ListenCallback)
    /\ WF_vars(ConnectSettles)
    /\ WF_vars(ConnectDBResume)
    /\ WF_vars(CloseCompletes)
    /\ WF_vars(SigintResume)

\* ------------------------------------------------------------ properties
TypeOK ==
    /\ envPORT \in PortSettings
    /\ dotenvPORT \in DotenvSettings
    /\ uriReachable \in BOOLEAN
    /\ pc \in {"start", "loaded"}
    /\ listening \in BOOLEAN
    /\ listenCb \in {"none", "pending", "done"}
    /\ connState \in ConnStates
    /\ connectPc \in {"idle", "awaiting", "resolved", "rejected", "done"}
    /\ closePc \in {"none", "waitOpen", "closing", "closed"}
    /\ Len(sigintAt) <= MaxSigints
    /\ Len(eventsSeen) <= MaxEvents
    /\ Len(responses) <= MaxRequests
    /\ exited \in BOOLEAN
    /\ exitCode \in {0, 1}

\* C1: with an unreachable or invalid MONGO_URI the HTTP listener is never
\* bound: no state has the listener bound while the connection attempt has
\* failed or has not succeeded.
C1_ListenerNeverBoundWhenUnreachable ==
    ~uriReachable => ~(listening /\ connState # "Connected")

\* C2: started with a MONGO_URI reachable within the timeout (and left
\* uninterrupted), the service eventually is Connected with its listener bound.
C2_EventuallyConnectedAndListening ==
    <>(\/ ~uriReachable
       \/ sigintAt # <<>>
       \/ (connState = "Connected" /\ listening))

IsGetRoot(r) == r.method = "GET" /\ r.path = "/"

SigintWhileConnected ==
    \E i \in 1..Len(sigintAt) : sigintAt[i].conn = "Connected"

\* C5: a SIGINT received while Connected leads to the connection being
\* Disconnected and the process having exited with status 0; after the exit
\* no interrupt handling step (nor any other step) takes place.
C5_SigintWhileConnectedExits0 ==
    /\ SigintWhileConnected ~>
            (exited /\ exitCode = 0 /\ connState = "Disconnected")
    /\ [][exited => (sigintAt' = sigintAt /\ closePc' = closePc
                        /\ log' = log /\ connState' = connState)]_vars

C5_Witness ==
    /\ SigintWhileConnected
    /\ exited
    /\ exitCode = 0
    /\ connState = "Disconnected"

\* C6: the process never exits with status 0 before the close of the
\* connection has completed (a second SIGINT during the close and a SIGINT
\* during a connection attempt included), and every interrupt leads to an
\* exit, which has status 0 only with the close performed.
C6_CloseBeforeExit ==
    /\ []((exited /\ exitCode = 0) =>
            (closePc = "closed" /\ connState = "Disconnected"))
    /\ [][(~exited /\ exited' /\ exitCode' = 0) => closePc = "closed"]_vars
    /\ (sigintAt # <<>>) ~> exited

C6_Witness ==
    /\ exited
    /\ exitCode = 0
    /\ Len(sigintAt) = 2
    /\ sigintAt[1].conn = "Connecting"
    /\ sigintAt[2].close = "closing"

EventStep ==
    /\ Len(eventsSeen') = Len(eventsSeen) + 1
    /\ eventsSeen'[Len(eventsSeen')] \in {"error", "disconnected"}

\* C8: a mid-life 'error' or 'disconnected' event is only logged: the process
\* keeps running, the listener stays bound, nothing but the log (and, for
\* 'disconnected', the connection state it reports) changes; once connected,
\* the listener stays bound until an interrupt is received.
C8_EventsOnlyLogged ==
    /\ [][EventStep =>
            /\ ~exited'
            /\ listening'
            /\ UNCHANGED <<inputs, pc, PORT, listening, listenArg, listenCb,
                           connectPc, closePc, sigintAt, responses, exited,
                           exitCode>>
            /\ Len(log') = Len(log) + 1
            /\ (eventsSeen'[Len(eventsSeen')] = "error" =>
                    connState' = connState)]_vars
    /\ []((connectPc = "done" /\ sigintAt = <<>>) => (listening /\ ~exited))

C8_Witness ==
    /\ eventsSeen = <<"error", "disconnected">>
    /\ listening
    /\ ~exited
    /\ Len(responses) = 1
    /\ responses[1].conn = "Disconnected"
    /\ responses[1].status = 200

\* The transitions of the connection state the specification lists.
ListedTransitions ==
    { <<"Disconnected", "Connecting">>, <<"Connecting", "Connected">>,
      <<"Connecting", "Errored">>, <<"Connected", "Disconnected">> }

\* C9 as stated: the connection state starts Disconnected and changes only
\* along the listed transitions; after a completed shutdown it is
\* Disconnected.
C9_OnlyListedTransitions ==
    /\ connState = "Disconnected"
    /\ [][connState' # connState =>
            <<connState, connState'>> \in ListedTransitions]_vars
    /\ [](closePc = "closed" => connState = "Disconnected")

\* C9 amended: the listed transitions and the reconnect Disconnected ->
\* Connected after a mid-life disconnect; Connected is reached for the first
\* time only from Connecting; after a completed shutdown the state is
\* Disconnected.
C9_ListedTransitionsAndReconnect ==
    /\ connState = "Disconnected"
    /\ [][connState' # connState =>
            \/ <<connState, connState'>> \in ListedTransitions
            \/ /\ <<connState, connState'>> = <<"Disconnected", "Connected">>
               /\ connectPc = "done"
               /\ "disconnected" \in {eventsSeen[i] : i \in 1..Len(eventsSeen)}]_vars
    /\ [](closePc = "closed" => connState = "Disconnected")

C9_Witness ==
    /\ eventsSeen = <<"disconnected", "connected">>
    /\ closePc = "closed"
    /\ connState = "Disconnected"

\* C10: loading the module binds the listener unconditionally: every
\* execution reaches the end of the module with the listener bound, before
\* any connection attempt has been started and whatever its outcome will be,
\* and the listener stays bound for as long as the process runs.
C10_ListenUnconditional ==
    /\ <>(pc = "loaded")
    /\ [][(pc = "start" /\ pc' = "loaded") =>
            (listening' /\ connectPc' = "idle"
                /\ connState' = "Disconnected")]_vars
    /\ [](pc = "loaded" => (listening \/ exited))

C10_Witness ==
    /\ listening
    /\ ~exited
    /\ connState = "Errored"
====
